---- MODULE Spec2Model ----
(***************************************************************************)
(* Model of the fin-agents backend: the Session entity, the Cosmos-backed  *)
(* SessionManager, the /chat entry point, the UserAgent, and the AIAgent   *)
(* tool-calling / delegation loop running on a SingleThreadedAgentRuntime. *)
(***************************************************************************)
EXTENDS Integers, Sequences, FiniteSets, TLC

(* ------------------------------------------------------------------ *)
(* Bounds of the model                                                 *)
(* ------------------------------------------------------------------ *)
MaxCompletions == 2   \* completions the model client answers in one run
MaxBatch == 2         \* longest list of function calls in one completion
MaxChats == 2         \* POST /chat requests in one run
MaxInputs == 2        \* lines typed at the UserAgent's input() prompt
MaxCap == 3           \* largest max_messages a Session under test is built with
MaxAppends == 4       \* add_message calls on a Session under test
MaxCreates == 2       \* create_session calls by a caller under test
MaxCalls == 2         \* steps of the callers of a SessionManager under test
MaxHeld == 1          \* messages a caller under test appends to the session it holds

(* ------------------------------------------------------------------ *)
(* Program constants                                                   *)
(* ------------------------------------------------------------------ *)
DefaultMaxMessages == 20

ORCHESTRATOR_TOPIC == "OrchestratorAgent"
INVOICE_TOPIC == "InvoiceAgent"
PO_TOPIC == "PurchaseOrderAgent"
HUMAN_TOPIC == "HumanAgent"
USER_TOPIC == "User"

AITopics == {ORCHESTRATOR_TOPIC, INVOICE_TOPIC, PO_TOPIC}

\* self._tools of each AIAgent subclass
LocalTools(agent) ==
  IF agent = INVOICE_TOPIC
    THEN {"fetch_invoice", "fetch_invoices", "create_invoice",
          "create_invoice_from_po_details"}
  ELSE IF agent = PO_TOPIC
    THEN {"fetch_po", "fetch_user_pos", "fetch_open_pos", "create_po", "close_po"}
  ELSE {}

\* self._delegate_tools of each AIAgent subclass
DelegateTools(agent) ==
  IF agent = ORCHESTRATOR_TOPIC
    THEN {"transfer_to_invoice_agent", "transfer_to_po_agent", "escalate_to_human"}
  ELSE IF agent = INVOICE_TOPIC
    THEN {"transfer_to_orchestrator"}
  ELSE IF agent = PO_TOPIC
    THEN {"transfer_to_invoice_agent", "transfer_back_to_orchestrator"}
  ELSE {}

\* the topic name a delegate tool function returns
DelegateTopic(name) ==
  CASE name = "transfer_to_invoice_agent" -> INVOICE_TOPIC
    [] name = "transfer_to_po_agent" -> PO_TOPIC
    [] name = "escalate_to_human" -> HUMAN_TOPIC
    [] name = "transfer_to_orchestrator" -> ORCHESTRATOR_TOPIC
    [] name = "transfer_back_to_orchestrator" -> ORCHESTRATOR_TOPIC
    [] OTHER -> "?"

(* ------------------------------------------------------------------ *)
(* Inputs                                                              *)
(* ------------------------------------------------------------------ *)
\* tool names the model client is taken to put in a function call of an
\* agent: names of tools the agent offers it, and one name the agent has not
CallNames(agent) ==
  IF agent = ORCHESTRATOR_TOPIC
    THEN {"transfer_to_invoice_agent", "escalate_to_human", "fetch_invoice"}
    ELSE {"fetch_invoice", "transfer_to_orchestrator", "escalate_to_human"}
Texts == {"Thanks!"}
UserInputs == {"hi"}
\* what awaiting tool.run_json can do: return a value, return an error-valued
\* dict such as {"error": "... not found"}, or raise
ToolOutcomes == {"value", "errvalue", "raise"}
DelegateOutcomes == {"value", "raise"}
\* what the try block of _publish_final_response can do: publish, or raise
PublishOutcomes == {"published", "raise"}

NoSource == "-"
NoResult == [kind |-> "none", text |-> "", calls |-> <<>>, results |-> <<>>]

VARIABLES
  store,      \* the Cosmos container: session id -> document, or NoDoc
  connected,  \* whether SessionManager.__init__ obtained self.container
  nsessions,  \* sessions created so far (ids are 1..nsessions)
  nchats,     \* POST /chat requests handled so far
  http,       \* outcome of the last /chat request
  queue,      \* the runtime's message queue, in publish order
  turns,      \* every AIAgent.handle_task invocation started so far
  nresp,      \* completions answered so far
  ninputs,    \* lines read by input() so far
  dropped,    \* messages delivered to an agent with no handler for their type
  sess,       \* a Session object held by a caller
  appended,   \* every message passed to sess.add_message, in order
  calls,      \* the last two calls made on the SessionManager, oldest first
  ncalls      \* steps taken by the callers of a SessionManager under test

vars == <<store, connected, nsessions, nchats, http, queue, turns, nresp,
          ninputs, dropped, sess, appended, calls, ncalls>>

appVars == <<store, connected, nsessions, nchats, http, queue, turns, nresp,
            ninputs, dropped>>
unitVars == <<sess, appended, calls, ncalls>>

(* ------------------------------------------------------------------ *)
(* Messages                                                            *)
(* ------------------------------------------------------------------ *)
\* the content of a message: a string, a list of FunctionCall, or a list of
\* FunctionExecutionResult
TextContent(t) == [kind |-> "text", text |-> t, calls |-> <<>>, results |-> <<>>]
CallsContent(cs) == [kind |-> "calls", text |-> "", calls |-> cs, results |-> <<>>]
ResultsContent(rs) == [kind |-> "results", text |-> "", calls |-> <<>>, results |-> rs]

UserMessage(content, source) ==
  [type |-> "UserMessage", source |-> source, content |-> content]
AssistantMessage(content, source) ==
  [type |-> "AssistantMessage", source |-> source, content |-> content]
FunctionExecutionResultMessage(content) ==
  [type |-> "FunctionExecutionResultMessage", source |-> NoSource,
   content |-> ResultsContent(content)]
FunctionExecutionResult(call_id, content, is_error) ==
  [call_id |-> call_id, content |-> content, is_error |-> is_error]
FunctionCall(id, name) == [id |-> id, name |-> name]

(* ------------------------------------------------------------------ *)
(* models/messages.py                                                  *)
(* ------------------------------------------------------------------ *)
\* SerializableMessage.from_llm_message
from_llm_message(msg) ==
  LET source == IF msg.source = NoSource THEN "System" ELSE msg.source
  IN [type |-> msg.type, content |-> msg.content, source |-> source,
      role |-> IF source = "User" THEN "user" ELSE "assistant"]

\* Python's seq[start:] for any integer start
PySliceFrom(seq, start) ==
  LET n == Len(seq)
      from == IF start < 0 THEN (IF n + start < 0 THEN 0 ELSE n + start)
              ELSE (IF start > n THEN n ELSE start)
  IN SubSeq(seq, from + 1, n)

Session_processing(id, current_agent, max_messages) ==
  [id |-> id, current_agent |-> current_agent, context |-> <<>>,
   max_messages |-> max_messages, status |-> "processing"]

\* Session(current_agent=..., max_messages=...) with its field defaults
Session(id, current_agent, max_messages) ==
  [id |-> id, current_agent |-> current_agent, context |-> <<>>,
   max_messages |-> max_messages, status |-> "idle"]

add_message_keep_oldest(session, message) ==
  LET grown == Append(session.context, from_llm_message(message))
  IN [session EXCEPT !.context =
        IF Len(grown) > session.max_messages
          THEN SubSeq(grown, 1, session.max_messages)
          ELSE grown]

\* Session.add_message
add_message(session, message) ==
  LET grown == Append(session.context, from_llm_message(message))
  IN [session EXCEPT !.context =
        IF Len(grown) > session.max_messages
          THEN PySliceFrom(grown, 0 - session.max_messages)
          ELSE grown]

(* ------------------------------------------------------------------ *)
(* context/session_manager.py                                          *)
(* ------------------------------------------------------------------ *)
NoSession ==
  [id |-> 0, current_agent |-> "", context |-> <<>>, max_messages |-> 0,
   status |-> ""]

\* whether a call on self.container goes through: the container exists and
\* the backing store answers
Reaches(ok) == connected /\ ok

\* SerializableMessage.model_dump: a message as a plain dict
model_dump_message(m) ==
  [type |-> m.type, content |-> m.content, source |-> m.source, role |-> m.role]

\* Session.model_dump: the session as the body of a document
model_dump(session) ==
  [id |-> session.id, current_agent |-> session.current_agent,
   context |-> [k \in 1..Len(session.context) |->
                  model_dump_message(session.context[k])],
   max_messages |-> session.max_messages, status |-> session.status]

\* the item the container keeps and hands back for a body: the body's keys
\* and the container's own
Item(body) ==
  [id |-> body.id, current_agent |-> body.current_agent, context |-> body.context,
   max_messages |-> body.max_messages, status |-> body.status, _etag |-> "etag"]

\* SerializableMessage built from a dict of a stored context
message_from_dict(d) ==
  [type |-> d.type, content |-> d.content, source |-> d.source, role |-> d.role]

session_from_item_default_status(item) ==
  [id |-> item.id, current_agent |-> item.current_agent,
   context |-> [k \in 1..Len(item.context) |-> message_from_dict(item.context[k])],
   max_messages |-> item.max_messages, status |-> Session(0, "", 0).status]

\* Session(**item): the declared fields are taken, the other keys ignored
session_from_item(item) ==
  [id |-> item.id, current_agent |-> item.current_agent,
   context |-> [k \in 1..Len(item.context) |-> message_from_dict(item.context[k])],
   max_messages |-> item.max_messages, status |-> item.status]

\* SessionManager.get_session: the session read, or NoSession for None
get_session(st, session_id, ok) ==
  IF session_id = 0 THEN NoSession
  ELSE IF Reaches(ok) /\ session_id \in DOMAIN st THEN session_from_item(st[session_id])
  ELSE NoSession

update_session_keeping_status(st, session, ok) ==
  IF Reaches(ok) /\ session.id \in DOMAIN st
    THEN <<[st EXCEPT ![session.id] =
              [Item(model_dump(session)) EXCEPT !.status = st[session.id].status]],
           TRUE>>
    ELSE <<st, FALSE>>

\* SessionManager._update_session: <<store afterwards, returned bool>>
update_session(st, session, ok) ==
  IF Reaches(ok) /\ session.id \in DOMAIN st
    THEN <<[st EXCEPT ![session.id] = Item(model_dump(session))], TRUE>>
    ELSE <<st, FALSE>>

create_session_unsaved(st, id, current_agent, ok) ==
  <<st, Session(id, current_agent, DefaultMaxMessages)>>

\* SessionManager.create_session: <<store afterwards, returned session>>
create_session(st, id, current_agent, ok) ==
  LET session == Session(id, current_agent, DefaultMaxMessages)
  IN IF Reaches(ok)
       THEN <<[i \in DOMAIN st \cup {id} |->
                 IF i = id THEN Item(model_dump(session)) ELSE st[i]],
              session>>
       ELSE <<st, session>>

update_status_unguarded(st, session_id, status, okGet, okPut) ==
  LET session == get_session(st, session_id, TRUE)
  IN IF session = NoSession THEN <<st, FALSE>>
     ELSE <<[st EXCEPT ![session_id] =
               Item(model_dump([session EXCEPT !.status = status]))],
            Reaches(okGet) /\ Reaches(okPut)>>

\* SessionManager.update_status: <<store afterwards, returned bool>>
update_status(st, session_id, status, okGet, okPut) ==
  LET session == get_session(st, session_id, okGet)
  IN IF session = NoSession THEN <<st, FALSE>>
     ELSE update_session(st, [session EXCEPT !.status = status], okPut)

update_current_agent_fresh(st, session_id, agent_type, okGet, okPut) ==
  LET session == get_session(st, session_id, okGet)
  IN IF session = NoSession THEN <<st, FALSE>>
     ELSE update_session(st, Session(session_id, agent_type, session.max_messages), okPut)

\* SessionManager.update_current_agent: <<store afterwards, returned bool>>
update_current_agent(st, session_id, agent_type, okGet, okPut) ==
  LET session == get_session(st, session_id, okGet)
  IN IF session = NoSession THEN <<st, FALSE>>
     ELSE update_session(st, [session EXCEPT !.current_agent = agent_type], okPut)

\* the except Exception clause around every container call of SessionManager:
\* whether an exception of the call leaves the method
except_Exception_passes(raised) == raised

except_Exception(raised) == FALSE

(* ------------------------------------------------------------------ *)
(* The runtime: published messages and their delivery                  *)
(* ------------------------------------------------------------------ *)
\* a published message: TopicId(topic, source=key), the message type that
\* selects the handler, its fields, and the turn that published it (0: none)
Envelope(topic, key, type, context, reply_to, session, sender) ==
  [topic |-> topic, key |-> key, type |-> type, context |-> context,
   reply_to_topic |-> reply_to, session |-> session, sender |-> sender]

\* a handler that never reaches an await and never returns keeps the
\* single-threaded event loop to itself
Blocked == \E i \in 1..Len(turns) : turns[i].pc = "spin"

(* ------------------------------------------------------------------ *)
(* app.py                                                              *)
(* ------------------------------------------------------------------ *)
\* POST /chat with no session_id
ChatNew ==
  /\ ~Blocked
  /\ nchats < MaxChats
  /\ \E text \in UserInputs, okCreate \in BOOLEAN, okGet \in BOOLEAN,
        okPut \in BOOLEAN :
       LET id == nsessions + 1
           created == create_session(store, id, ORCHESTRATOR_TOPIC, okCreate)
           session == add_message(created[2], UserMessage(TextContent(text), "User"))
           updated == update_status(created[1], session.id, "processing", okGet, okPut)
       IN /\ store' = updated[1]
          /\ nsessions' = id
          /\ queue' = Append(queue,
               Envelope(USER_TOPIC, session.id, "Session", <<>>, "", session, 0))
          /\ http' = "ok"
  /\ nchats' = nchats + 1
  /\ UNCHANGED <<connected, turns, nresp, ninputs, dropped, sess, appended, calls, ncalls>>

\* POST /chat with a session_id
ChatExisting ==
  /\ ~Blocked
  /\ nchats < MaxChats
  /\ \E id \in 1..(nsessions + 1), text \in UserInputs, okRead \in BOOLEAN,
        okGet \in BOOLEAN, okPut \in BOOLEAN :
       LET found == get_session(store, id, okRead)
       IN IF found = NoSession
            THEN \* session is None: session.add_message raises, HTTP 500
                 /\ http' = "error"
                 /\ UNCHANGED <<store, queue>>
            ELSE LET session == add_message(found, UserMessage(TextContent(text), "User"))
                     updated == update_status(store, session.id, "processing",
                                              okGet, okPut)
                 IN /\ store' = updated[1]
                    /\ queue' = Append(queue,
                         Envelope(USER_TOPIC, session.id, "Session", <<>>, "",
                                  session, 0))
                    /\ http' = "ok"
  /\ nchats' = nchats + 1
  /\ UNCHANGED <<connected, nsessions, turns, nresp, ninputs, dropped, sess, appended, calls, ncalls>>

(* ------------------------------------------------------------------ *)
(* agents/user.py                                                      *)
(* ------------------------------------------------------------------ *)
\* UserAgent.handle_new_session_message
UserNewSession ==
  /\ ~Blocked
  /\ queue # <<>>
  /\ Head(queue).topic = USER_TOPIC /\ Head(queue).type = "Session"
  /\ ninputs < MaxInputs
  /\ \E user_input \in UserInputs :
       queue' = Append(Tail(queue),
         Envelope(ORCHESTRATOR_TOPIC, Head(queue).key, "UserRequest",
                  <<UserMessage(TextContent(user_input), "User")>>, "", NoSession, 0))
  /\ ninputs' = ninputs + 1
  /\ UNCHANGED <<store, connected, nsessions, nchats, http, turns, nresp, dropped,
                 sess, appended, calls, ncalls>>

\* UserAgent.handle_message
UserReply ==
  /\ ~Blocked
  /\ queue # <<>>
  /\ Head(queue).topic = USER_TOPIC /\ Head(queue).type = "AgentResponse"
  /\ ninputs < MaxInputs
  /\ \E user_input \in UserInputs :
       queue' = Append(Tail(queue),
         Envelope(Head(queue).reply_to_topic, Head(queue).key, "UserRequest",
                  Append(Head(queue).context,
                         UserMessage(TextContent(user_input), "User")),
                  "", NoSession, 0))
  /\ ninputs' = ninputs + 1
  /\ UNCHANGED <<store, connected, nsessions, nchats, http, turns, nresp, dropped,
                 sess, appended, calls, ncalls>>

(* ------------------------------------------------------------------ *)
(* agents/ai.py                                                        *)
(* ------------------------------------------------------------------ *)
\* The state of one handle_task invocation.  pc is the await it is suspended
\* at: "llm" (model_client.create), "tool" (a local tool.run_json), "deleg" (a
\* delegate tool.run_json), "pub" (publish_message of a delegation), "final"
\* (about to publish the final response), "spin" (in the while loop with no
\* await ahead), "end" (returned or raised).
\* ctx is message.context; result is llm_result.content; idx is the position of
\* the for loop in it; results is tool_call_results; targets is
\* delegate_targets and j the position of _delegate_to_agents in it.
\* History kept beside the code's variables: parent (the turn whose publish
\* started this one), nreq (completion requests issued), pubs (topics
\* published to, in order), batchPubs (publishes since the last completion
\* arrived), ran (local calls executed since the last completion arrived, with
\* what the tool did), err (what was raised).
NewTurn(agent, key, context, parent) ==
  [agent |-> agent, key |-> key, parent |-> parent, status |-> "active",
   pc |-> "llm", ctx |-> context, result |-> NoResult, idx |-> 0,
   results |-> <<>>, targets |-> <<>>, j |-> 0, nreq |-> 1, pubs |-> <<>>,
   batchPubs |-> 0, ran |-> <<>>, err |-> ""]

\* AIAgent._has_function_calls
has_function_calls(content) == content.kind = "calls"

Raise_swallowed(t, what) == [t EXCEPT !.status = "done", !.pc = "end", !.err = what]

\* an exception leaves handle_task
Raise(t, what) == [t EXCEPT !.status = "failed", !.pc = "end", !.err = what]

\* handle_task returns
Return(t) == [t EXCEPT !.status = "done", !.pc = "end"]

update_message_context_reversed(t) ==
  [t EXCEPT !.ctx = t.ctx \o
     <<AssistantMessage(t.result, t.agent),
       FunctionExecutionResultMessage(
         [k \in 1..Len(t.results) |-> t.results[Len(t.results) + 1 - k]])>>]

\* AIAgent._update_message_context
update_message_context(t) ==
  [t EXCEPT !.ctx = t.ctx \o <<AssistantMessage(t.result, t.agent),
                               FunctionExecutionResultMessage(t.results)>>]

\* AIAgent._get_llm_response up to its await
get_llm_response(t) == [t EXCEPT !.pc = "llm", !.nreq = t.nreq + 1]

ContinueConversation_capped(t) ==
  IF t.results # <<>>
    THEN Return(update_message_context(t))
    ELSE [t EXCEPT !.pc = "spin"]

\* handle_task lines 84-91, then the while condition again: with results the
\* context is extended and a new completion requested; with none the same
\* llm_result is examined again
ContinueConversation(t) ==
  IF t.results # <<>>
    THEN get_llm_response(update_message_context(t))
    ELSE [t EXCEPT !.pc = "spin"]

HandleDelegation_first_only(t) ==
  IF t.targets # <<>>
    THEN [t EXCEPT !.pc = "pub", !.j = 1, !.targets = <<t.targets[1]>>]
    ELSE ContinueConversation(t)

\* handle_task lines 78-82 up to the first publish
HandleDelegation(t) ==
  IF t.targets # <<>>
    THEN [t EXCEPT !.pc = "pub", !.j = 1]
    ELSE ContinueConversation(t)

\* the branch of the for loop taken when the name is in neither tool dict
UnknownTool(t) == Raise(t, "Unknown tool")

ProcessCalls_unknown_as_local(t) ==
  IF t.idx > Len(t.result.calls) THEN HandleDelegation(t)
  ELSE LET call == t.result.calls[t.idx]
       IN IF call.name \in DelegateTools(t.agent) THEN [t EXCEPT !.pc = "deleg"]
          ELSE [t EXCEPT !.pc = "tool"]

\* the for loop of handle_task at position t.idx, up to the next await
ProcessCalls(t) ==
  IF t.idx > Len(t.result.calls) THEN HandleDelegation(t)
  ELSE LET call == t.result.calls[t.idx]
       IN IF call.name \in LocalTools(t.agent) THEN [t EXCEPT !.pc = "tool"]
          ELSE IF call.name \in DelegateTools(t.agent) THEN [t EXCEPT !.pc = "deleg"]
          ELSE UnknownTool(t)

\* handle_task once a completion has arrived
OnCompletion(t, content) ==
  LET got == [t EXCEPT !.result = content, !.batchPubs = 0, !.ran = <<>>]
  IN IF has_function_calls(content)
       THEN ProcessCalls([got EXCEPT !.idx = 1, !.results = <<>>, !.targets = <<>>,
                                     !.j = 0])
       ELSE [got EXCEPT !.pc = "final"]

\* what a local tool's run_json and return_value_as_string give back
ToolValue(outcome) ==
  IF outcome = "errvalue" THEN "{'error': 'Invoice 7 not found'}"
  ELSE "{'id': 'INV-001'}"

execute_tool_flag_by_content(call, outcome) ==
  IF outcome = "raise"
    THEN FunctionExecutionResult(call.id, "Error: tool failed", TRUE)
    ELSE FunctionExecutionResult(call.id, ToolValue(outcome), outcome = "errvalue")

execute_tool_unflagged(call, outcome) ==
  IF outcome = "raise"
    THEN FunctionExecutionResult(call.id, "Error: tool failed", FALSE)
    ELSE FunctionExecutionResult(call.id, ToolValue(outcome), FALSE)

\* AIAgent._execute_tool
execute_tool(call, outcome) ==
  IF outcome = "raise"
    THEN FunctionExecutionResult(call.id, "Error: tool failed", TRUE)
    ELSE FunctionExecutionResult(call.id, ToolValue(outcome), FALSE)

TransferText(topic_type) ==
  CASE topic_type = INVOICE_TOPIC -> "Transferred to InvoiceAgent. Adopt persona immediately."
    [] topic_type = PO_TOPIC -> "Transferred to PurchaseOrderAgent. Adopt persona immediately."
    [] topic_type = HUMAN_TOPIC -> "Transferred to HumanAgent. Adopt persona immediately."
    [] OTHER -> "Transferred to OrchestratorAgent. Adopt persona immediately."

prepare_delegation_whole_batch(t, call, topic_type) ==
  [topic |-> topic_type,
   context |-> t.ctx \o
     <<AssistantMessage(t.result, t.agent),
       FunctionExecutionResultMessage(
         <<FunctionExecutionResult(call.id, TransferText(topic_type), FALSE)>>)>>]

\* AIAgent._prepare_delegation once the delegate tool has returned topic_type
prepare_delegation(t, call, topic_type) ==
  [topic |-> topic_type,
   context |-> t.ctx \o
     <<AssistantMessage(CallsContent(<<call>>), t.agent),
       FunctionExecutionResultMessage(
         <<FunctionExecutionResult(call.id, TransferText(topic_type), FALSE)>>)>>]

\* the completions the model client may return as its n-th answer: a text, or
\* a list of at most MaxBatch function calls (the empty list included)
CallId(n, pos) == n * 10 + pos
Batches(agent, n) ==
  UNION {{[pos \in 1..len |-> FunctionCall(CallId(n, pos), names[pos])] :
            names \in [1..len -> CallNames(agent)]} : len \in 0..MaxBatch}
Completions(agent, n) ==
  {TextContent(x) : x \in Texts} \cup {CallsContent(b) : b \in Batches(agent, n)}

SetTurn(i, t) == turns' = [turns EXCEPT ![i] = t]

Suspended(i, pc) ==
  /\ ~Blocked
  /\ turns[i].status = "active"
  /\ turns[i].pc = pc

\* the runtime hands a UserRequest to the AIAgent of its topic: handle_task
\* runs up to its first await
DeliverTask ==
  /\ ~Blocked
  /\ queue # <<>>
  /\ Head(queue).topic \in AITopics /\ Head(queue).type = "UserRequest"
  /\ turns' = Append(turns, NewTurn(Head(queue).topic, Head(queue).key,
                                    Head(queue).context, Head(queue).sender))
  /\ queue' = Tail(queue)
  /\ UNCHANGED <<store, connected, nsessions, nchats, http, nresp, ninputs, dropped,
                 sess, appended, calls, ncalls>>

\* whether the agent subscribed to a topic has a handler for a message type
Handles(topic, type) ==
  \/ topic \in AITopics /\ type = "UserRequest"
  \/ topic = USER_TOPIC /\ type \in {"Session", "AgentResponse"}
  \/ topic = HUMAN_TOPIC /\ type = "Session"

\* the runtime hands a message to an agent with no handler for its type
DeliverUnhandled ==
  /\ ~Blocked
  /\ queue # <<>>
  /\ ~Handles(Head(queue).topic, Head(queue).type)
  /\ dropped' = Append(dropped, Head(queue))
  /\ queue' = Tail(queue)
  /\ UNCHANGED <<store, connected, nsessions, nchats, http, turns, nresp, ninputs,
                 sess, appended, calls, ncalls>>

\* model_client.create returns
LLMReturn(i) ==
  /\ Suspended(i, "llm")
  /\ nresp < MaxCompletions
  /\ \E content \in Completions(turns[i].agent, nresp + 1) :
       SetTurn(i, OnCompletion(turns[i], content))
  /\ nresp' = nresp + 1
  /\ UNCHANGED <<store, connected, nsessions, nchats, http, queue, ninputs, dropped,
                 sess, appended, calls, ncalls>>

\* model_client.create raises
LLMFail(i) ==
  /\ Suspended(i, "llm")
  /\ nresp < MaxCompletions
  /\ SetTurn(i, Raise(turns[i], "Completion failed"))
  /\ nresp' = nresp + 1
  /\ UNCHANGED <<store, connected, nsessions, nchats, http, queue, ninputs, dropped,
                 sess, appended, calls, ncalls>>

\* the await in _execute_tool ends, by a value or by an exception
ToolReturn(i) ==
  /\ Suspended(i, "tool")
  /\ \E outcome \in ToolOutcomes :
       LET t == turns[i]
           call == t.result.calls[t.idx]
       IN SetTurn(i, ProcessCalls(
            [t EXCEPT !.results = Append(t.results, execute_tool(call, outcome)),
                      !.ran = Append(t.ran, [id |-> call.id, outcome |-> outcome]),
                      !.idx = t.idx + 1]))
  /\ UNCHANGED <<store, connected, nsessions, nchats, http, queue, nresp, ninputs,
                 dropped, sess, appended, calls, ncalls>>

\* the await in _prepare_delegation ends, by a topic name or by an exception
DelegateReturn(i) ==
  /\ Suspended(i, "deleg")
  /\ \E outcome \in DelegateOutcomes :
       LET t == turns[i]
           call == t.result.calls[t.idx]
       IN IF outcome = "raise"
            THEN SetTurn(i, Raise(t, "Delegate tool failed"))
            ELSE SetTurn(i, ProcessCalls(
                   [t EXCEPT !.targets = Append(t.targets,
                                prepare_delegation(t, call, DelegateTopic(call.name))),
                             !.idx = t.idx + 1]))
  /\ UNCHANGED <<store, connected, nsessions, nchats, http, queue, nresp, ninputs,
                 dropped, sess, appended, calls, ncalls>>

TopicSource_first(t) == 1

\* source=self.id.key in the TopicId of a publish: the key of the agent
\* instance running the turn
TopicSource(t) == t.key

\* handle_task after _delegate_to_agents has published every target
AfterDelegation(t) ==
  IF t.results = <<>> THEN Return(t) ELSE ContinueConversation(t)

\* one publish_message of _delegate_to_agents
PublishDelegation(i) ==
  /\ Suspended(i, "pub")
  /\ LET t == turns[i]
         target == t.targets[t.j]
         sent == [t EXCEPT !.pubs = Append(t.pubs, target.topic),
                           !.batchPubs = t.batchPubs + 1,
                           !.j = t.j + 1]
     IN /\ queue' = Append(queue,
             Envelope(target.topic, TopicSource(t), "UserRequest", target.context, "",
                      NoSession, i))
        /\ SetTurn(i, IF sent.j > Len(sent.targets) THEN AfterDelegation(sent) ELSE sent)
  /\ UNCHANGED <<store, connected, nsessions, nchats, http, nresp, ninputs, dropped,
                 sess, appended, calls, ncalls>>

\* AIAgent._publish_final_response: the message is appended and published, or
\* the try block raises at the publish and the except clause prints the error
\* and lets the handler return
PublishFinal(i) ==
  /\ Suspended(i, "final")
  /\ \E outcome \in PublishOutcomes :
       LET t == turns[i]
           context == Append(t.ctx, AssistantMessage(t.result, t.agent))
       IN IF outcome = "raise"
            THEN /\ queue' = queue
                 /\ SetTurn(i, Return([t EXCEPT !.ctx = context]))
            ELSE /\ queue' = Append(queue,
                      Envelope(USER_TOPIC, TopicSource(t), "AgentResponse", context, t.agent,
                               NoSession, i))
                 /\ SetTurn(i, Return([t EXCEPT !.ctx = context,
                                                !.pubs = Append(t.pubs, USER_TOPIC),
                                                !.batchPubs = t.batchPubs + 1]))
  /\ UNCHANGED <<store, connected, nsessions, nchats, http, nresp, ninputs, dropped,
                 sess, appended, calls, ncalls>>

AppInit ==
  /\ store = [i \in {} |-> 0]
  /\ connected \in BOOLEAN
  /\ nsessions = 0
  /\ nchats = 0
  /\ http = "none"
  /\ queue = <<>>
  /\ turns = <<>>
  /\ nresp = 0
  /\ ninputs = 0
  /\ dropped = <<>>

UnitInit ==
  /\ sess = Session(1, ORCHESTRATOR_TOPIC, DefaultMaxMessages)
  /\ appended = <<>>
  /\ calls = <<>>
  /\ ncalls = 0

Init == AppInit /\ UnitInit

Next ==
  \/ ChatNew
  \/ ChatExisting
  \/ UserNewSession
  \/ UserReply
  \/ DeliverTask
  \/ DeliverUnhandled
  \/ \E i \in 1..Len(turns) : LLMReturn(i)
  \/ \E i \in 1..Len(turns) : LLMFail(i)
  \/ \E i \in 1..Len(turns) : ToolReturn(i)
  \/ \E i \in 1..Len(turns) : DelegateReturn(i)
  \/ \E i \in 1..Len(turns) : PublishDelegation(i)
  \/ \E i \in 1..Len(turns) : PublishFinal(i)

Spec == Init /\ [][Next]_vars

(* ------------------------------------------------------------------ *)
(* One handle_task invocation on its own                               *)
(* ------------------------------------------------------------------ *)
\* the requests a turn is started with: the user's first input, sent to the
\* orchestrator, and the context the orchestrator hands to the invoice agent
FirstRequest == <<UserMessage(TextContent("hi"), "User")>>
DelegatedRequest ==
  prepare_delegation(NewTurn(ORCHESTRATOR_TOPIC, 1, FirstRequest, 0),
                     FunctionCall(CallId(0, 1), "transfer_to_invoice_agent"),
                     INVOICE_TOPIC).context

\* a session has been created and its request delivered to an agent: to the
\* orchestrator before any completion, or to the invoice agent after the
\* orchestrator's completion that delegated to it
TurnInit ==
  /\ store = [i \in {1} |->
               Item(model_dump([Session(1, ORCHESTRATOR_TOPIC, DefaultMaxMessages)
                                  EXCEPT !.status = "processing"]))]
  /\ connected = TRUE
  /\ nsessions = 1 /\ nchats = 1 /\ http = "ok"
  /\ queue = <<>> /\ ninputs = 1 /\ dropped = <<>>
  /\ \/ /\ turns = <<NewTurn(ORCHESTRATOR_TOPIC, 1, FirstRequest, 0)>>
        /\ nresp = 0
     \/ /\ turns = <<NewTurn(INVOICE_TOPIC, 1, DelegatedRequest, 0)>>
        /\ nresp = 1
  /\ UnitInit

TurnNext ==
  \/ \E i \in 1..Len(turns) : LLMReturn(i)
  \/ \E i \in 1..Len(turns) : LLMFail(i)
  \/ \E i \in 1..Len(turns) : ToolReturn(i)
  \/ \E i \in 1..Len(turns) : DelegateReturn(i)
  \/ \E i \in 1..Len(turns) : PublishDelegation(i)
  \/ \E i \in 1..Len(turns) : PublishFinal(i)

TurnSpec == TurnInit /\ [][TurnNext]_vars

(* ------------------------------------------------------------------ *)
(* Properties of the running system                                    *)
(* ------------------------------------------------------------------ *)
TurnIds == 1..Len(turns)
Active(i) == turns[i].status = "active"
IsLocal(t, call) == call.name \in LocalTools(t.agent)
IsDelegate(t, call) == call.name \in DelegateTools(t.agent)
IsUnknown(t, call) == ~IsLocal(t, call) /\ ~IsDelegate(t, call)
Calls(t) == t.result.calls
\* the delegation publishes of a turn: everything it published but the final
\* response to the user topic
Delegations(t) == {k \in 1..Len(t.pubs) : t.pubs[k] # USER_TOPIC}
LocalPositions(t) == {p \in 1..Len(Calls(t)) : IsLocal(t, Calls(t)[p])}
Last(seq) == seq[Len(seq)]
Persisted(key) == key \in DOMAIN store
\* the last n elements of seq
LastN(seq, n) == SubSeq(seq, Len(seq) - n + 1, Len(seq))
\* messages as a Session keeps them
Serialized(msgs) == [i \in 1..Len(msgs) |-> from_llm_message(msgs[i])]
Min(a, b) == IF a < b THEN a ELSE b

\* C1: at most one handler is active on a session id at any time, and a
\* handler started by a delegation never runs while the turn that delegated
\* is still running.
C1_SingleOwner ==
  /\ \A i \in TurnIds, k \in TurnIds :
       (i # k /\ turns[i].key = turns[k].key) => ~(Active(i) /\ Active(k))
  /\ \A i \in TurnIds :
       (turns[i].parent > 0 /\ Active(i)) => ~Active(turns[i].parent)

\* C2: a finished turn that delegated has handed the session to exactly one
\* destination topic, and the session's status was not made "completed".
C2_DelegationInvariant ==
  \A i \in TurnIds :
    (turns[i].status # "active" /\ Delegations(turns[i]) # {}) =>
      /\ Cardinality({turns[i].pubs[k] : k \in Delegations(turns[i])}) = 1
      /\ Persisted(turns[i].key) => store[turns[i].key].status # "completed"

\* C5: for a batch [A, B] of local calls, A's result is in tool_call_results
\* before B is run, and when the next completion is requested the history
\* ends with the assistant message of the batch and the results of A and B
\* in that order.
C5_ToolResultOrdering ==
  \A i \in TurnIds :
    LET t == turns[i]
    IN (Len(Calls(t)) = 2 /\ LocalPositions(t) = {1, 2}) =>
         /\ Len(t.results) <= 2
         /\ \A k \in 1..Len(t.results) : t.results[k].call_id = Calls(t)[k].id
         /\ t.pc = "tool" => Len(t.results) = t.idx - 1
         /\ (t.pc = "llm" /\ t.status = "active") =>
              /\ Len(t.ctx) >= 2
              /\ t.ctx[Len(t.ctx) - 1] = AssistantMessage(t.result, t.agent)
              /\ Last(t.ctx).type = "FunctionExecutionResultMessage"
              /\ Len(Last(t.ctx).content.results) = 2
              /\ Last(t.ctx).content.results[1].call_id = Calls(t)[1].id
              /\ Last(t.ctx).content.results[2].call_id = Calls(t)[2].id

\* a turn waiting for the completion that follows a batch [A, B] of local
\* calls whose two results differ
C5_Witness ==
  \E i \in TurnIds :
    LET t == turns[i]
    IN /\ Len(Calls(t)) = 2 /\ LocalPositions(t) = {1, 2}
       /\ t.pc = "llm" /\ t.nreq = 2
       /\ Last(t.ctx).content.results[1].is_error
       /\ ~Last(t.ctx).content.results[2].is_error

\* the session of a key is in the store and /chat's update_status went through
Processing(key) == Persisted(key) /\ store[key].status # "idle"

\* C6: a turn that ended on a plain-text completion has the text as the last
\* message, has made the session "completed" with itself as current_agent,
\* and has published nothing after the completion arrived.
C6_PlainTextCompletes ==
  \A i \in TurnIds :
    LET t == turns[i]
    IN (t.status = "done" /\ t.result.kind = "text" /\ Processing(t.key)) =>
         /\ Last(t.ctx) = AssistantMessage(t.result, t.agent)
         /\ store[t.key].status = "completed"
         /\ store[t.key].current_agent = t.agent
         /\ t.batchPubs = 0

\* C7: after a single delegate call resolving to topic B, the session has been
\* published to B, the sender has not completed it, and once the turn of the
\* agent on B has finished the session is "completed" with current_agent = B.
C7_HandOff ==
  \A i \in TurnIds :
    LET t == turns[i]
    IN (t.parent > 0 /\ Len(Calls(turns[t.parent])) = 1) =>
         /\ turns[t.parent].pubs = <<t.agent>>
         /\ (t.status = "active" /\ Persisted(t.key)) =>
              store[t.key].status # "completed"
         /\ (t.status = "done" /\ Processing(t.key)) =>
              /\ store[t.key].status = "completed"
              /\ store[t.key].current_agent = t.agent

NotFound(content) == content = "{'error': 'Invoice 7 not found'}"

\* C8 as stated: a local tool that returns an error value leaves an
\* error-flagged ToolResult containing "not found" for the call.
C8_ErrorValueFlagged ==
  \A i \in TurnIds :
    \A k \in 1..Len(turns[i].ran) :
      turns[i].ran[k].outcome = "errvalue" =>
        /\ turns[i].results[k].call_id = turns[i].ran[k].id
        /\ turns[i].results[k].is_error
        /\ NotFound(turns[i].results[k].content)

\* C8 as amended: a local tool that returns an error value leaves a ToolResult
\* for the call that contains "not found" and whose error flag is not set;
\* when it was the only call of the batch the turn has gone on to request
\* another completion, with that result as the last message of the history,
\* and has not ended unless that completion failed.
C8_ErrorValueResult ==
  \A i \in TurnIds :
    LET t == turns[i]
    IN \A k \in 1..Len(t.ran) :
         t.ran[k].outcome = "errvalue" =>
           /\ Len(t.results) >= k
           /\ t.results[k].call_id = t.ran[k].id
           /\ ~t.results[k].is_error
           /\ NotFound(t.results[k].content)
           /\ Len(Calls(t)) = 1 =>
                /\ t.nreq >= 2
                /\ Last(t.ctx) = FunctionExecutionResultMessage(t.results)
                /\ \/ t.status = "active" /\ t.pc = "llm"
                   \/ t.status = "failed" /\ t.err = "Completion failed"

C8_Witness ==
  \E i \in TurnIds :
    /\ Len(Calls(turns[i])) = 1
    /\ Len(turns[i].ran) = 1
    /\ turns[i].ran[1].outcome = "errvalue"
    /\ turns[i].pc = "llm"

\* the k-th local call of the batch a turn is working on
LocalCall(t, k) ==
  Calls(t)[CHOOSE p \in LocalPositions(t) :
             Cardinality({q \in LocalPositions(t) : q < p}) = k - 1]

\* C9: a local tool that raises does not end the turn: its call gets an
\* error-flagged ToolResult with the call id, in the call's place among the
\* results of the batch; the calls after it are still processed (a turn never
\* fails at a local call, and every local call before the loop position has
\* been run); and the results are the last message of the history when the
\* next completion is requested.
C9_LocalFailureRecovered ==
  \A i \in TurnIds :
    LET t == turns[i]
    IN t.result.kind = "calls" =>
         /\ Len(t.results) = Len(t.ran)
         /\ \A k \in 1..Len(t.ran) :
              /\ t.ran[k].id = LocalCall(t, k).id
              /\ t.results[k].call_id = t.ran[k].id
              /\ t.results[k].is_error = (t.ran[k].outcome = "raise")
         /\ t.pc # "llm" =>
              Len(t.ran) = Cardinality({p \in LocalPositions(t) : p < t.idx})
         /\ (t.status = "failed" /\ t.err # "Completion failed") =>
              /\ t.idx <= Len(Calls(t))
              /\ ~IsLocal(t, Calls(t)[t.idx])
         /\ (t.status = "active" /\ t.pc = "llm" /\ t.ran # <<>>) =>
              Last(t.ctx) = FunctionExecutionResultMessage(t.results)

\* the first call of a batch of two local calls raised, the second was still
\* run, and the turn is asking for the next completion
C9_Witness ==
  \E i \in TurnIds :
    LET t == turns[i]
    IN /\ Len(t.ran) = 2
       /\ t.ran[1].outcome = "raise"
       /\ t.status = "active" /\ t.pc = "llm"
       /\ Last(t.ctx).content.results[1].is_error

\* a turn that has failed stays as it is and publishes nothing
FailedTurnsFrozen ==
  \A i \in TurnIds :
    turns[i].status = "failed" =>
      /\ turns'[i] = turns[i]
      /\ \A k \in 1..Len(queue') : queue'[k].sender = i =>
           \E m \in 1..Len(queue) : queue[m] = queue'[k]

\* the loop never goes past a call whose name is in neither tool dict: the
\* turn has failed at it with nothing published since the completion arrived
UnknownToolStops ==
  \A i \in TurnIds :
    LET t == turns[i]
    IN \A p \in 1..Len(Calls(t)) :
         (p <= t.idx /\ IsUnknown(t, Calls(t)[p])) =>
           /\ t.status = "failed" /\ t.err = "Unknown tool" /\ t.pc = "end"
           /\ p = t.idx
           /\ t.batchPubs = 0

\* C10: a call naming a tool in neither set makes the turn fail with the
\* unknown-tool error; nothing of its batch has been published (delegations
\* prepared before it included), and after the failure the turn runs no tool,
\* requests no completion and publishes nothing.
C10_UnknownToolFatal == [](UnknownToolStops) /\ [][FailedTurnsFrozen]_vars

\* a turn that failed at an unknown tool with a delegation already prepared
C10_Witness ==
  \E i \in TurnIds :
    /\ turns[i].status = "failed" /\ turns[i].err = "Unknown tool"
    /\ turns[i].targets # <<>>
    /\ turns[i].pubs = <<>>

\* what the three fatal failures of a turn raise
FatalErrors == {"Unknown tool", "Completion failed", "Delegate tool failed"}

\* C11: a fatal failure of a turn (an unknown tool, a failed completion, a
\* delegate tool that raises) leaves the handler as an exception, so the turn
\* ends failed; the loop never stands at an unknown tool without having
\* failed; and the session of a failed turn still has the status the turn
\* started with, "processing", never "completed".
C11_FailedTurnKeepsStatus ==
  \A i \in TurnIds :
    LET t == turns[i]
    IN /\ t.err # "" => (t.err \in FatalErrors /\ t.status = "failed" /\ t.pc = "end")
       /\ (t.result.kind = "calls" /\ t.idx \in 1..Len(Calls(t))
             /\ IsUnknown(t, Calls(t)[t.idx])) => t.err = "Unknown tool"
       /\ t.status = "failed" =>
            /\ t.err # ""
            /\ Persisted(t.key)
            /\ store[t.key].status = "processing"
            /\ store[t.key].status # "completed"

\* a turn that ran a local tool and then failed at a delegate tool that raised
C11_Witness ==
  \E i \in TurnIds :
    /\ turns[i].status = "failed" /\ turns[i].err = "Delegate tool failed"
    /\ turns[i].results # <<>>
    /\ store[turns[i].key].status = "processing"

\* C18: when a turn whose completion held exactly one delegate call has
\* published to the destination, the store holds the session as the turn had
\* it before publishing (its history is the turn's history), and the turn
\* has ended without the session being "completed".
C18_PersistBeforeHandOff ==
  \A i \in TurnIds :
    LET t == turns[i]
    IN (/\ Len(Calls(t)) = 1 /\ IsDelegate(t, Calls(t)[1])
        /\ t.batchPubs = 1
        /\ Processing(t.key)) =>
         /\ store[t.key].context = Serialized(t.ctx)
         /\ t.status = "done"
         /\ store[t.key].status # "completed"

DelegatePositions(t) == {p \in 1..Len(Calls(t)) : IsDelegate(t, Calls(t)[p])}

\* the topics the delegate calls of a batch resolve to, in the order of the
\* calls
DelegateTopicsOf(t) ==
  [k \in 1..Cardinality(DelegatePositions(t)) |->
     DelegateTopic(Calls(t)[CHOOSE p \in DelegatePositions(t) :
       Cardinality({q \in DelegatePositions(t) : q < p}) = k - 1].name)]

\* C19: for a completion with two or more delegate calls, what the turn has
\* published since the completion arrived is a prefix of the destination
\* topics in the order of the calls, one publish per call; once the loop is
\* through the batch and the publishing is over, every one of them has been
\* published; each publish is a message on the runtime's queue for that topic.
C19_FanOut ==
  \A i \in TurnIds :
    LET t == turns[i]
        topics == DelegateTopicsOf(t)
    IN (t.result.kind = "calls" /\ Cardinality(DelegatePositions(t)) >= 2) =>
         /\ t.batchPubs <= Len(topics)
         /\ LastN(t.pubs, t.batchPubs) = SubSeq(topics, 1, t.batchPubs)
         /\ t.pc = "pub" => t.batchPubs = t.j - 1
         /\ (t.idx > Len(Calls(t)) /\ t.pc # "pub") => t.batchPubs = Len(topics)
         /\ t.status = "done" => t.batchPubs = Len(topics)
         /\ [k \in 1..Len(queue) |-> queue[k].topic] = t.pubs

\* the orchestrator's turn is over after the batch [escalate_to_human,
\* transfer_to_invoice_agent]
C19_Witness ==
  \E i \in TurnIds :
    /\ turns[i].status = "done"
    /\ Len(Calls(turns[i])) = 2
    /\ Calls(turns[i])[1].name = "escalate_to_human"
    /\ Calls(turns[i])[2].name = "transfer_to_invoice_agent"
    /\ turns[i].pubs = <<HUMAN_TOPIC, INVOICE_TOPIC>>
    /\ Len(queue) = 2

\* the rounds of tool calls a turn has added to its context: the assistant
\* messages of function calls that carry the turn's own agent as source
Rounds(t) ==
  Cardinality({k \in 1..Len(t.ctx) :
    /\ t.ctx[k].type = "AssistantMessage" /\ t.ctx[k].source = t.agent
    /\ t.ctx[k].content.kind = "calls"})

C24_TurnEndsAtDelegation ==
  \A i \in TurnIds :
    LET t == turns[i]
    IN (/\ t.result.kind = "calls" /\ Cardinality(DelegatePositions(t)) = 1
        /\ t.batchPubs = 1) =>
         /\ t.status = "done" /\ t.pc = "end"
         /\ t.nreq = 1 + Rounds(t)

\* the call ids that have a result in some tool-result message of a history
ResultIds(context) ==
  UNION {{context[m].content.results[r].call_id :
            r \in 1..Len(context[m].content.results)} : m \in 1..Len(context)}

\* C25: the history published to a delegate destination ends with the result
\* announcing the hand-off and holds, before it, the result of every local
\* call that came before the delegate call in the same batch.
C25_DelegatedHistoryComplete ==
  \A k \in 1..Len(queue) :
    LET e == queue[k]
    IN (e.type = "UserRequest" /\ e.sender \in TurnIds) =>
         LET t == turns[e.sender]
             announced == Last(e.context).content.results
         IN /\ Len(announced) = 1
            /\ announced[1].content = TransferText(e.topic)
            /\ \A p \in DelegatePositions(t) : \A q \in LocalPositions(t) :
                 (Calls(t)[p].id = announced[1].call_id /\ q < p) =>
                   Calls(t)[q].id \in ResultIds(e.context)

\* C27: when chat has published a session a second time (ids are never
\* reused, so the second publish is chat's handling of a request for an
\* existing session) and the stored session is "processing", the stored
\* history is the history of the session that was published: it ends with the
\* user message chat appended.
C27_ChatPersistsUserMessage ==
  \A a \in 1..Len(queue) : \A b \in 1..Len(queue) :
    (/\ a < b
     /\ queue[a].type = "Session" /\ queue[b].type = "Session"
     /\ queue[a].key = queue[b].key
     /\ Persisted(queue[b].key)
     /\ store[queue[b].key].status = "processing") =>
      /\ store[queue[b].key].context = model_dump(queue[b].session).context
      /\ store[queue[b].key].context # <<>>

\* C28: a turn that is through the calls of a completion (and through the
\* publishing of its delegations) has returned, has failed, or waits for a
\* new completion it has requested; it never stands in the loop with the
\* same result and no request made.
C28_LoopProgress ==
  \A i \in TurnIds :
    LET t == turns[i]
    IN (t.result.kind = "calls" /\ t.idx > Len(Calls(t)) /\ t.pc # "pub") =>
         \/ t.status \in {"done", "failed"}
         \/ t.status = "active" /\ t.pc = "llm" /\ t.nreq = 1 + Rounds(t)

\* C29: a turn whose handler has returned without raising has published at
\* least one message: a delegation or the final response to the user topic.
C29_NoSilentEnd ==
  \A i \in TurnIds :
    turns[i].status = "done" => turns[i].pubs # <<>>

\* the ids of a list of function calls, and of a list of results
CallIdsOf(content) == {content.calls[r].id : r \in 1..Len(content.calls)}
ResultIdsOf(content) == {content.results[r].call_id : r \in 1..Len(content.results)}

\* every assistant message of function calls in a history is directly
\* followed by a tool-result message with one result per call id, and every
\* tool-result message directly follows such an assistant message
Paired(context) ==
  \A m \in 1..Len(context) :
    /\ context[m].content.kind = "calls" =>
         /\ m < Len(context)
         /\ context[m + 1].content.kind = "results"
         /\ Len(context[m + 1].content.results) = Len(context[m].content.calls)
         /\ ResultIdsOf(context[m + 1].content) = CallIdsOf(context[m].content)
    /\ context[m].content.kind = "results" =>
         /\ m > 1
         /\ context[m - 1].content.kind = "calls"

\* C30: the history a turn sends with a completion request, and every
\* history published to another agent or to the user, pairs each tool call
\* of an assistant message with exactly one result of the same call id in
\* the message that follows it.
C30_CallResultPairing ==
  /\ \A i \in TurnIds :
       (turns[i].status = "active" /\ turns[i].pc = "llm") => Paired(turns[i].ctx)
  /\ \A k \in 1..Len(queue) :
       queue[k].type \in {"UserRequest", "AgentResponse"} => Paired(queue[k].context)

\* the delegate call the k-th prepared delegation of a batch came from
DelegateCallOf(t, k) ==
  Calls(t)[CHOOSE p \in DelegatePositions(t) :
    Cardinality({q \in DelegatePositions(t) : q < p}) = k - 1]

\* while a turn goes through a batch, each delegation it has prepared holds
\* the turn's history followed by two messages: the assistant message of the
\* one delegate call, and a result that is not an error, has the call's id
\* and announces the transfer
PreparedFromHistory ==
  \A i \in TurnIds :
    LET t == turns[i]
    IN (t.result.kind = "calls" /\ t.pc \in {"tool", "deleg", "pub"}) =>
         \A k \in 1..Len(t.targets) :
           LET built == t.targets[k].context
               call == DelegateCallOf(t, k)
               announced == built[Len(built)].content.results
           IN /\ Len(built) = Len(t.ctx) + 2
              /\ SubSeq(built, 1, Len(t.ctx)) = t.ctx
              /\ built[Len(t.ctx) + 1].type = "AssistantMessage"
              /\ built[Len(t.ctx) + 1].source = t.agent
              /\ built[Len(t.ctx) + 1].content = CallsContent(<<call>>)
              /\ built[Len(built)].type = "FunctionExecutionResultMessage"
              /\ Len(announced) = 1
              /\ announced[1].call_id = call.id
              /\ ~announced[1].is_error
              /\ announced[1].content = TransferText(t.targets[k].topic)

\* the step in which a delegate tool returns and the delegation is prepared
\* leaves the turn's own history as it was
PreparationKeepsHistory ==
  \A i \in TurnIds :
    (turns[i].status = "active" /\ turns[i].pc = "deleg") =>
      turns'[i].ctx = turns[i].ctx

\* C31: preparing a delegation builds a new history, the sender's history
\* followed by exactly the assistant message of the delegate call and a
\* non-error result with that call's id announcing the transfer, and the
\* sender's own history is the same before and after.
C31_PreparationFrame == [](PreparedFromHistory) /\ [][PreparationKeepsHistory]_vars

\* the invoice agent has run a local tool and prepared the delegation of the
\* second call of its batch
C31_Witness ==
  \E i \in TurnIds :
    /\ turns[i].pc = "pub" /\ Len(turns[i].targets) = 1
    /\ Len(Calls(turns[i])) = 2 /\ turns[i].results # <<>>
    /\ Len(turns[i].targets[1].context) = Len(turns[i].ctx) + 2

(* ------------------------------------------------------------------ *)
(* Conversations after /chat: the agents on the runtime, no new requests  *)
(* ------------------------------------------------------------------ *)
\* the document chat leaves for a new session, and the Session message it
\* publishes to the User topic
ChatStored(id) ==
  update_status(create_session([i \in {} |-> 0], id, ORCHESTRATOR_TOPIC, TRUE)[1],
                id, "processing", TRUE, TRUE)[1][id]
ChatPublished(id) ==
  Envelope(USER_TOPIC, id, "Session", <<>>, "",
           add_message(Session(id, ORCHESTRATOR_TOPIC, DefaultMaxMessages),
                       UserMessage(TextContent("hi"), "User")), 0)

\* chat has created sessions 1 and 2; the Session message of one of them, or
\* of both, waits for the UserAgent
ConvInit ==
  /\ connected = TRUE
  /\ store = [id \in {1, 2} |-> ChatStored(id)]
  /\ nsessions = 2 /\ nchats = 2 /\ http = "ok"
  /\ queue \in {<<ChatPublished(1)>>, <<ChatPublished(2)>>,
                <<ChatPublished(1), ChatPublished(2)>>}
  /\ turns = <<>> /\ nresp = 0 /\ ninputs = 0 /\ dropped = <<>>
  /\ UnitInit

\* the completions with at most one function call
SingleCalls(agent, n) ==
  {TextContent(x) : x \in Texts} \cup
  {CallsContent(<<FunctionCall(CallId(n, 1), name)>>) : name \in CallNames(agent)}

\* model_client.create returns a text or a single function call
LLMReturnSingle(i) ==
  /\ Suspended(i, "llm")
  /\ nresp < MaxCompletions
  /\ \E content \in SingleCalls(turns[i].agent, nresp + 1) :
       SetTurn(i, OnCompletion(turns[i], content))
  /\ nresp' = nresp + 1
  /\ UNCHANGED <<store, connected, nsessions, nchats, http, queue, ninputs, dropped,
                 sess, appended, calls, ncalls>>

ConvNext ==
  \/ UserNewSession
  \/ UserReply
  \/ DeliverTask
  \/ DeliverUnhandled
  \/ \E i \in 1..Len(turns) : LLMReturnSingle(i)
  \/ \E i \in 1..Len(turns) : LLMFail(i)
  \/ \E i \in 1..Len(turns) : ToolReturn(i)
  \/ \E i \in 1..Len(turns) : DelegateReturn(i)
  \/ \E i \in 1..Len(turns) : PublishDelegation(i)
  \/ \E i \in 1..Len(turns) : PublishFinal(i)

ConvSpec == ConvInit /\ [][ConvNext]_vars

\* the partition keys of the messages queued or dropped and of the agent
\* instances that have run a turn
KeysPresent ==
  {queue[k].key : k \in 1..Len(queue)} \cup {dropped[k].key : k \in 1..Len(dropped)}
    \cup {turns[i].key : i \in TurnIds}

\* a message published by a turn has the key of the turn's agent instance,
\* and a turn started by another turn's publish has that turn's key
KeysFollowSender ==
  /\ \A k \in 1..Len(queue) :
       queue[k].sender # 0 => queue[k].key = turns[queue[k].sender].key
  /\ \A k \in 1..Len(dropped) :
       dropped[k].sender # 0 => dropped[k].key = turns[dropped[k].sender].key
  /\ \A i \in TurnIds :
       turns[i].parent # 0 => turns[i].key = turns[turns[i].parent].key
  /\ KeysPresent \subseteq 1..nsessions

\* the UserAgent publishes its request with the key of the message it
\* handled, a turn runs under the key of the message delivered to it, and no
\* step puts a key in play that no message or instance had before
KeyHandedOn ==
  /\ (queue # <<>> /\ Head(queue).topic = USER_TOPIC /\ ninputs' = ninputs + 1) =>
       /\ Len(queue') = Len(queue)
       /\ queue'[Len(queue')].key = Head(queue).key
  /\ Len(turns') = Len(turns) + 1 => turns'[Len(turns')].key = Head(queue).key
  /\ KeysPresent' \subseteq KeysPresent

\* C32: every message an agent publishes carries the key of the message the
\* agent received: delegations and final responses the key of the turn's
\* instance, user requests the key of the Session or AgentResponse handled;
\* so a conversation never brings a key into play that it did not start with.
C32_KeyPreserved == [](KeysFollowSender) /\ [][KeyHandedOn]_vars

\* conversation 2 alone: after a delegation to the invoice agent and its
\* final response, the user's reply waits for the invoice agent under key 2
C32_Witness ==
  /\ KeysPresent = {2}
  /\ \E i \in TurnIds : turns[i].parent # 0 /\ turns[i].pubs = <<USER_TOPIC>>
  /\ \E k \in 1..Len(queue) :
       /\ queue[k].type = "UserRequest" /\ queue[k].sender = 0
       /\ queue[k].topic = INVOICE_TOPIC /\ queue[k].key = 2

\* the agents that have published a final response in the conversation of a
\* key
Responders(key) ==
  {turns[i].agent : i \in {j \in TurnIds :
     /\ turns[j].key = key
     /\ \E k \in 1..Len(turns[j].pubs) : turns[j].pubs[k] = USER_TOPIC}}

\* a step in which the UserAgent publishes the input it read: to the
\* orchestrator when no agent has given a final response in the conversation
\* yet, and otherwise to an agent that has given one
RoutedToResponder ==
  (queue # <<>> /\ Head(queue).topic = USER_TOPIC /\ ninputs' = ninputs + 1) =>
    LET sent == queue'[Len(queue')]
    IN IF Responders(Head(queue).key) = {}
         THEN sent.topic = ORCHESTRATOR_TOPIC
         ELSE sent.topic \in Responders(Head(queue).key)

\* C33: the first user input of a conversation is published to the
\* orchestrator's topic, and every later one to the topic of an agent that
\* has produced a final response in the conversation, not to the orchestrator
\* when the final responses came from another agent.
C33_ReplyRouting == [][RoutedToResponder]_vars

(* ------------------------------------------------------------------ *)
(* A Session object driven directly through add_message                *)
(* ------------------------------------------------------------------ *)
TestMessages ==
  {UserMessage(TextContent("hi"), "User"),
   AssistantMessage(TextContent("Thanks!"), INVOICE_TOPIC),
   FunctionExecutionResultMessage(<<>>)}

SessionInit ==
  /\ store = [i \in {} |-> 0]
  /\ connected = TRUE
  /\ nsessions = 0 /\ nchats = 0 /\ http = "none"
  /\ queue = <<>> /\ turns = <<>> /\ nresp = 0 /\ ninputs = 0 /\ dropped = <<>>
  /\ \E k \in 0..MaxCap : sess = Session(1, ORCHESTRATOR_TOPIC, k)
  /\ appended = <<>>
  /\ calls = <<>>
  /\ ncalls = 0

AddMessage ==
  /\ Len(appended) < MaxAppends
  /\ \E m \in TestMessages :
       /\ sess' = add_message(sess, m)
       /\ appended' = Append(appended, m)
  /\ UNCHANGED <<appVars, calls, ncalls>>

SessionNext == AddMessage

SessionSpec == SessionInit /\ [][SessionNext]_vars

\* C3: whatever max_messages the session was created with (0 included), the
\* history never holds more than max_messages entries, and what it holds is
\* what is left of the appended messages after dropping from the oldest end.
C3_BoundedHistory ==
  /\ Len(sess.context) <= sess.max_messages
  /\ \E n \in 0..Len(appended) : sess.context = LastN(Serialized(appended), n)

\* C4: with max_messages = k >= 1, after appending n messages to an empty
\* session the history is exactly the last min(n, k) of them, in order.
C4_TrimResult ==
  sess.max_messages >= 1 =>
    sess.context = LastN(Serialized(appended), Min(Len(appended), sess.max_messages))

\* k = 2 and three appends, the first of which differs from the two kept
C4_Witness ==
  /\ sess.max_messages = 2
  /\ Len(appended) = 3
  /\ appended[1] # appended[2]
  /\ sess.context = <<from_llm_message(appended[2]), from_llm_message(appended[3])>>

(* ------------------------------------------------------------------ *)
(* The SessionManager driven by its callers                            *)
(* ------------------------------------------------------------------ *)
\* the agent topics a caller passes as current_agent / agent_type
EntryTopics == {ORCHESTRATOR_TOPIC, INVOICE_TOPIC}
\* the status a caller passes to update_status
StatusArgs == {"processing"}
\* what is typed at HumanAgent's input() prompt
HumanInputs == {"approved"}

\* one call on the SessionManager as its caller saw it: the method, the id
\* and value passed, the session passed or held, whether every container call
\* it made went through, what it returned (ok: the bool, or whether a session
\* came back; ret: the session), whether an exception left it, the store
\* before and after, the session object the caller held before and after, and
\* whether the cancellation token of the message being handled was set
Call(op, id, value, arg, reached, ok, ret, raised, before, after, held, heldAfter, cancelled) ==
  [op |-> op, id |-> id, value |-> value, arg |-> arg, reached |-> reached,
   ok |-> ok, ret |-> ret, raised |-> raised, before |-> before, after |-> after,
   held |-> held, heldAfter |-> heldAfter, cancelled |-> cancelled]

\* a call once another has followed it: what it was given and what it
\* returned are kept, the stores and held objects around it are not
Earlier(call) ==
  [call EXCEPT !.before = <<>>, !.after = <<>>, !.held = NoSession,
               !.heldAfter = NoSession]

\* the history after one more call
Called(history, call) ==
  IF history = <<>> THEN <<call>>
  ELSE <<Earlier(history[Len(history)]), call>>

\* session = session_manager.create_session(current_agent)
StoreCreate ==
  /\ ncalls < MaxCalls
  /\ nsessions < MaxCreates
  /\ \E agent \in EntryTopics, ok \in BOOLEAN :
       LET id == nsessions + 1
           created == create_session(store, id, agent, ok)
       IN /\ store' = created[1]
          /\ sess' = created[2]
          /\ calls' = Called(calls,
               Call("create", id, agent, NoSession, Reaches(ok), TRUE, created[2],
                    except_Exception(~Reaches(ok)), store, created[1], sess,
                    created[2], FALSE))
          /\ nsessions' = id
  /\ ncalls' = ncalls + 1
  /\ UNCHANGED <<connected, nchats, http, queue, turns, nresp, ninputs, dropped,
                 appended>>

\* session = session_manager.get_session(session_id); a caller that gets a
\* session holds it from then on
StoreGet ==
  /\ ncalls < MaxCalls
  /\ \E id \in 0..(nsessions + 1), ok \in BOOLEAN :
       LET found == get_session(store, id, ok)
           heldAfter == IF found = NoSession THEN sess ELSE found
       IN /\ sess' = heldAfter
          /\ calls' = Called(calls,
               Call("get", id, "", NoSession, id # 0 => Reaches(ok),
                    found # NoSession, found,
                    except_Exception(id # 0 /\ found = NoSession), store, store, sess,
                    heldAfter, FALSE))
  /\ ncalls' = ncalls + 1
  /\ UNCHANGED <<store, connected, nsessions, nchats, http, queue, turns, nresp,
                 ninputs, dropped, appended>>

\* session_manager._update_session(session) with the session the caller holds
StoreReplace ==
  /\ ncalls < MaxCalls
  /\ sess.id # 0
  /\ \E ok \in BOOLEAN :
       LET updated == update_session(store, sess, ok)
       IN /\ store' = updated[1]
          /\ calls' = Called(calls,
               Call("replace", sess.id, "", sess, Reaches(ok), updated[2], NoSession,
                    except_Exception(~updated[2]), store, updated[1], sess, sess,
                    FALSE))
  /\ ncalls' = ncalls + 1
  /\ UNCHANGED <<connected, nsessions, nchats, http, queue, turns, nresp, ninputs,
                 dropped, sess, appended>>

\* session_manager.update_status(session_id, status)
StoreUpdateStatus ==
  /\ ncalls < MaxCalls
  /\ \E id \in 1..(nsessions + 1), status \in StatusArgs, okGet \in BOOLEAN,
        okPut \in BOOLEAN :
       LET updated == update_status(store, id, status, okGet, okPut)
       IN /\ store' = updated[1]
          /\ calls' = Called(calls,
               Call("update_status", id, status, NoSession,
                    Reaches(okGet) /\ Reaches(okPut), updated[2], NoSession,
                    except_Exception(~updated[2]), store, updated[1], sess, sess,
                    FALSE))
  /\ ncalls' = ncalls + 1
  /\ UNCHANGED <<connected, nsessions, nchats, http, queue, turns, nresp, ninputs,
                 dropped, sess, appended>>

\* session_manager.update_current_agent(session_id, agent_type)
StoreUpdateCurrentAgent ==
  /\ ncalls < MaxCalls
  /\ \E id \in 1..(nsessions + 1), agent \in EntryTopics, okGet \in BOOLEAN,
        okPut \in BOOLEAN :
       LET updated == update_current_agent(store, id, agent, okGet, okPut)
       IN /\ store' = updated[1]
          /\ calls' = Called(calls,
               Call("update_current_agent", id, agent, NoSession,
                    Reaches(okGet) /\ Reaches(okPut), updated[2], NoSession,
                    except_Exception(~updated[2]), store, updated[1], sess, sess,
                    FALSE))
  /\ ncalls' = ncalls + 1
  /\ UNCHANGED <<connected, nsessions, nchats, http, queue, turns, nresp, ninputs,
                 dropped, sess, appended>>

\* session.add_message(UserMessage(content=request.message, source="User")) on
\* the session the caller holds
HeldAddMessage ==
  /\ sess.id # 0
  /\ Len(appended) < MaxHeld
  /\ \E text \in UserInputs :
       LET m == UserMessage(TextContent(text), "User")
       IN /\ sess' = add_message(sess, m)
          /\ appended' = Append(appended, m)
  /\ UNCHANGED <<appVars, calls, ncalls>>

HumanCompleted_complete(session) ==
  [session EXCEPT !.current_agent = HUMAN_TOPIC, !.status = "complete"]

\* HumanAgent.handle_message lines 27-28
HumanCompleted(session) ==
  [session EXCEPT !.current_agent = HUMAN_TOPIC, !.status = "completed"]

\* HumanAgent.handle_message(message, ctx) with the session the caller holds
\* as the message; ctx.cancellation_token may have been set before the handler
\* starts or while it waits in input()
HumanHandle ==
  /\ ncalls < MaxCalls
  /\ sess.id # 0
  /\ \E agent_input \in HumanInputs, ok1 \in BOOLEAN, ok2 \in BOOLEAN,
        cancelledBefore \in BOOLEAN, cancelledAtInput \in BOOLEAN :
       LET processing == [sess EXCEPT !.status = "processing"]
           first == update_session(store, processing, ok1)
           answered == add_message(processing,
                         AssistantMessage(TextContent(agent_input), HUMAN_TOPIC))
           completed == HumanCompleted(answered)
           second == update_session(first[1], completed, ok2)
       IN /\ store' = second[1]
          /\ sess' = completed
          /\ calls' = Called(Called(calls,
               Call("replace", sess.id, "", processing, Reaches(ok1), first[2],
                    NoSession, except_Exception(~first[2]), store, first[1], sess,
                    processing, cancelledBefore)),
               Call("replace", sess.id, "", completed, Reaches(ok2), second[2],
                    NoSession, except_Exception(~second[2]), first[1], second[1],
                    processing, completed, cancelledBefore \/ cancelledAtInput))
  /\ ncalls' = ncalls + 1
  /\ UNCHANGED <<connected, nsessions, nchats, http, queue, turns, nresp, ninputs,
                 dropped, appended>>

\* nothing has been created yet, or one session was created by an earlier
\* call and is still held by its caller
StoreInit ==
  /\ nchats = 0 /\ http = "none" /\ queue = <<>> /\ turns = <<>>
  /\ nresp = 0 /\ ninputs = 0 /\ dropped = <<>>
  /\ appended = <<>>
  /\ calls = <<>>
  /\ ncalls = 0
  /\ \/ /\ connected \in BOOLEAN
        /\ store = [i \in {} |-> 0]
        /\ nsessions = 0
        /\ sess = NoSession
     \/ /\ connected = TRUE
        /\ store = create_session([i \in {} |-> 0], 1, ORCHESTRATOR_TOPIC, TRUE)[1]
        /\ nsessions = 1
        /\ sess = Session(1, ORCHESTRATOR_TOPIC, DefaultMaxMessages)

StoreNext ==
  \/ StoreCreate
  \/ StoreGet
  \/ StoreReplace
  \/ StoreUpdateStatus
  \/ StoreUpdateCurrentAgent
  \/ HeldAddMessage
  \/ HumanHandle

StoreSpec == StoreInit /\ [][StoreNext]_vars

\* the last two calls, when there have been two
Previous == calls[1]
Latest == calls[Len(calls)]

GetAfterCreate ==
  /\ Len(calls) = 2
  /\ Previous.op = "create"
  /\ Latest.op = "get" /\ Latest.id = Previous.ret.id

\* C13 as stated: a get that directly follows a create, with the id of the
\* session create returned, returns a session equal to that one.
C13_CreateThenGet == GetAfterCreate => Latest.ret = Previous.ret

\* C13 as amended: when create's write reached the store and the store
\* answers the read, the get returns a session equal to the one create
\* returned (same id, empty history, same current_agent, status and
\* max_messages); when either call did not reach the store, the get returns
\* no session although create returned one.
C13_CreateThenGetReached ==
  GetAfterCreate =>
    /\ (Previous.reached /\ Latest.reached) =>
         /\ Latest.ret = Previous.ret
         /\ Latest.ret.context = <<>>
         /\ Latest.ret.current_agent = Previous.value
    /\ ~(Previous.reached /\ Latest.reached) =>
         /\ Latest.ret = NoSession
         /\ Previous.ret # NoSession

\* a second session, created for the invoice agent, read back right away
C13_Witness ==
  /\ GetAfterCreate
  /\ Previous.reached /\ Latest.reached
  /\ Latest.ret.id = 2
  /\ Latest.ret.current_agent = INVOICE_TOPIC

\* the store failed during the latest call: some container call of it did
\* not go through
StoreFailed(call) == ~call.reached

\* C14: an update_status during which the store fails returns False and
\* raises nothing, leaves every persisted session as it was, and leaves the
\* session object its caller holds as it was.
C14_UpdateStatusFailure ==
  (/\ calls # <<>>
   /\ Latest.op = "update_status"
   /\ StoreFailed(Latest)) =>
    /\ Latest.ok = FALSE
    /\ ~Latest.raised
    /\ Latest.after = Latest.before
    /\ Latest.heldAfter = Latest.held

\* the read of update_status went through and its write failed, for a stored
\* session whose caller holds an object with a message the store has not seen
C14_Witness ==
  /\ calls # <<>>
  /\ Latest.op = "update_status" /\ StoreFailed(Latest)
  /\ connected
  /\ Latest.id \in DOMAIN store
  /\ sess.id = Latest.id
  /\ sess.context # <<>>
  /\ store[Latest.id].context = <<>>

StoreOps == {"create", "get", "replace", "update_status", "update_current_agent"}

\* what a call whose container call did not go through gives its caller
FailureSignal(call) ==
  CASE call.op = "create" -> call.ret = Session(call.id, call.value, DefaultMaxMessages)
    [] call.op = "get" -> call.ret = NoSession /\ ~call.ok
    [] OTHER -> call.ok = FALSE

\* C15: no call on the SessionManager raises to its caller, whatever the
\* store does; a call whose container call fails, the container never having
\* been obtained included, returns its failure signal (None from get, False
\* from replace, update_status and update_current_agent, the in-memory
\* session from create) and leaves the store as it was.
C15_BestEffortStore ==
  /\ \A k \in 1..Len(calls) :
       /\ calls[k].op \in StoreOps
       /\ ~calls[k].raised
       /\ StoreFailed(calls[k]) => FailureSignal(calls[k])
  /\ (calls # <<>> /\ StoreFailed(Latest)) => Latest.after = Latest.before

\* with no container at all: create has returned its in-memory session and an
\* update_current_agent for it has returned False
C15_Witness ==
  /\ ~connected
  /\ Len(calls) = 2
  /\ Previous.op = "create" /\ Previous.ret.id = 1
  /\ Latest.op = "update_current_agent" /\ Latest.id = 1 /\ ~Latest.ok
  /\ store = [i \in {} |-> 0]

\* C16: the session create returns has an id no earlier created session has
\* (ids being handed out as 1, 2, ...: every id below it has been created and
\* none at or above it is in the store before the call), an empty history,
\* the current_agent passed in, and status "idle".
C16_InitialSessionState ==
  \A k \in 1..Len(calls) :
    calls[k].op = "create" =>
      /\ calls[k].ret.id = calls[k].id
      /\ calls[k].ret.context = <<>>
      /\ calls[k].ret.current_agent = calls[k].value
      /\ calls[k].ret.status = "idle"
      /\ calls[k].ret.max_messages = DefaultMaxMessages
      /\ k = Len(calls) =>
           /\ calls[k].id = nsessions
           /\ \A other \in DOMAIN calls[k].before : other < calls[k].id
           /\ calls[k].held.id # calls[k].id

\* a second session created for the invoice agent while the first, held by
\* the caller with a message in it, is in the store
C16_Witness ==
  /\ calls # <<>>
  /\ Latest.op = "create" /\ Latest.id = 2
  /\ Latest.ret.current_agent = INVOICE_TOPIC
  /\ 1 \in DOMAIN Latest.before
  /\ Latest.held.id = 1 /\ Latest.held.context # <<>>
  /\ 2 \in DOMAIN store

Statuses == {"idle", "processing", "completed"}

C20_Cancellation ==
  \A k \in 1..Len(calls) : calls[k].cancelled => ~calls[k].ok

\* two replaces in a row of sessions with the same id, both returning True
TwoReplaces ==
  /\ Len(calls) = 2
  /\ Previous.op = "replace" /\ Previous.ok
  /\ Latest.op = "replace" /\ Latest.ok /\ Latest.id = Previous.id

\* C26: after two successful replaces of sessions with the same id, the
\* stored document is the second session's and nothing else, and a get of
\* that id returns the second session: its messages, status and
\* current_agent, whatever the first one's were.
C26_LastWriterWins ==
  TwoReplaces =>
    /\ store[Latest.id] = Item(model_dump(Latest.arg))
    /\ get_session(store, Latest.id, TRUE) = Latest.arg
    /\ get_session(store, Latest.id, TRUE).context = Latest.arg.context
    /\ get_session(store, Latest.id, TRUE).status = Latest.arg.status
    /\ get_session(store, Latest.id, TRUE).current_agent = Latest.arg.current_agent

\* HumanAgent's two replaces: the second session differs from the first in
\* its messages, its status and its current_agent
C26_Witness ==
  /\ TwoReplaces
  /\ Previous.arg.context # Latest.arg.context
  /\ Previous.arg.status # Latest.arg.status
  /\ Previous.arg.current_agent # Latest.arg.current_agent

\* the latest call is an update of one field of a session
FieldUpdate == calls # <<>> /\ Latest.op \in {"update_status", "update_current_agent"}

\* the session a store holds under an id, as a get would return it
StoredSession(st, id) == session_from_item(st[id])

\* C34: a successful update_status leaves the persisted session as it was
\* but for its status, and a successful update_current_agent as it was but
\* for its current_agent: id, history and max_messages are the same before
\* and after, and no other document changes; with an id the store does not
\* hold, both return False and the store is as before.
C34_FieldUpdateFrame ==
  FieldUpdate =>
    LET before == Latest.before
        after == Latest.after
        id == Latest.id
    IN /\ id \notin DOMAIN before => (~Latest.ok /\ after = before)
       /\ ~Latest.ok => after = before
       /\ Latest.ok =>
            /\ id \in DOMAIN before
            /\ DOMAIN after = DOMAIN before
            /\ \A other \in DOMAIN before \ {id} : after[other] = before[other]
            /\ StoredSession(after, id).id = StoredSession(before, id).id
            /\ StoredSession(after, id).context = StoredSession(before, id).context
            /\ StoredSession(after, id).max_messages =
                 StoredSession(before, id).max_messages
            /\ Latest.op = "update_status" =>
                 /\ StoredSession(after, id).status = Latest.value
                 /\ StoredSession(after, id).current_agent =
                      StoredSession(before, id).current_agent
            /\ Latest.op = "update_current_agent" =>
                 /\ StoredSession(after, id).current_agent = Latest.value
                 /\ StoredSession(after, id).status = StoredSession(before, id).status
       /\ store = after

\* update_current_agent has moved a session that HumanAgent completed, with a
\* message in its history, to another agent
C34_Witness ==
  /\ FieldUpdate /\ Latest.op = "update_current_agent" /\ Latest.ok
  /\ Latest.before[Latest.id].context # <<>>
  /\ Latest.before[Latest.id].status = "completed"
  /\ Latest.before[Latest.id].current_agent # Latest.value
  /\ Latest.after[Latest.id].current_agent = Latest.value

====
